---- MODULE Spec2Model ----
(***************************************************************************)
(* Model of the electrical-charges demo (the 800x600 program): the         *)
(* per-frame callback Game.update, the Stroke tracker, sprite picking and  *)
(* Sprite.MoveBy.  A frame is the fixed sequence of code blocks of         *)
(* Game.update: the pointer-down blocks, the key blocks, one iteration of  *)
(* the stroke loop per stroke, and the draw half; pc is the position of    *)
(* the callback inside the frame.                                          *)
(*                                                                         *)
(* The three bitmaps are 50x50 discs of the same size and alpha mask, so   *)
(* the bitmap a sprite currently shows is not part of the state.  Charges  *)
(* are counted in steps of 0.1.                                            *)
(***************************************************************************)
EXTENDS Integers, Sequences, FiniteSets, TLC

\* ---------------------------------------------------------------- bounds
MaxKeys  == 1      \* key presses accepted in one run
MaxTouch == 1      \* touch ids are 0 .. MaxTouch-1
MaxPresses == 3    \* charge-key presses accepted in one run of SpecCharge

\* ------------------------------------------------------ program constants
fullScreenWidth  == 800
fullScreenHeight == 600
screenWidth      == fullScreenWidth
screenHeight     == (fullScreenHeight * 9) \div 10
InitialSprites   == 2
ImageW           == 50
ImageH           == 50
NilSprite        == 0      \* (*Sprite)(nil), also as a typed nil in interface{}
NilIface         == -1     \* interface{}(nil), stored by SetDraggingObject(nil)

KeyNames == {"A", "P", "N", "Up", "Down", "Right", "Left"}

\* rand.Seed(25): the places init draws for the two sprites, Intn(screenWidth
\* - w) and Intn(screenHeight - h) for the 50x50 bitmaps, are the same in
\* every run
InitPlaces == << <<301, 220>>, <<701, 335>> >>

\* the places the 'A' block draws after them, Intn(screenWidth) and
\* Intn(screenHeight), press by press
AddPlaces  == << <<398, 421>>, <<600, 126>>, <<151, 319>>,
                 <<432, 364>>, <<30, 253>>, <<430, 37>> >>

\* cursor samples the engine reports: an opaque pixel of the first sprite at
\* its start place, and a transparent pixel inside the bitmap of the second
\* one
MousePoints == { <<325, 230>>, <<725, 337>> }

\* touch samples the engine reports: the middle of the second sprite
TouchPoints == { <<725, 359>> }

Points     == MousePoints \cup TouchPoints
NoPoint    == <<0, 0>>

TouchIDs  == 0 .. (MaxTouch - 1)
MouseSrc  == <<"mouse", 0>>
TouchSrc(id) == <<"touch", id>>
StrokeIds == 1 .. (2 * (MaxTouch + 1))
SpritePtrs == 1 .. (InitialSprites + MaxKeys)

VARIABLES
    pc,            \* position of Game.update inside the current frame
    sprites,       \* g.sprites: sequence of sprite pointers, back to front
    spr,           \* sprite pointer -> [x, y, charge, chosen]
    ChosenSprite,  \* g.ChosenSprite
    strokes,       \* key set of g.strokes (stroke pointers)
    stk,           \* stroke pointer -> Stroke fields
    panicked,      \* a run-time panic has ended the process
    input,         \* what the engine reports to this frame: mouse and touches
    todo,          \* strokes the range loop has not visited yet this frame
    keysUsed,      \* number of accepted key presses (history)
    adds,          \* number of 'A' presses so far: the position of the
                   \* seeded generator in AddPlaces
    visits,        \* stroke pointer -> Update calls in this frame (history)
    tally,         \* sprite pointer -> 'P' and 'N' presses made while it was
                   \* the selection (history)
    ev             \* description of the last code block executed (history)

vars == <<pc, sprites, spr, ChosenSprite, strokes, stk, panicked, input, todo,
          keysUsed, adds, visits, tally, ev>>

\* ------------------------------------------------------------- helpers
Range(f) == { f[i] : i \in DOMAIN f }

Last(seq) == seq[Len(seq)]

\* ebiten.Image.Size of a sprite bitmap
ImageSize == <<ImageW, ImageH>>

\* the alpha of the bitmap at (px, py) is > 0; outside the bounds At returns
\* the zero colour
Opaque(px, py) ==
    /\ px >= 0 /\ px < ImageW
    /\ py >= 0 /\ py < ImageH
    /\ (px - 24) * (px - 24) + (py - 24) * (py - 24) <= 400

\* variant of In that tests the bounding box of the bitmap
InBoundingBox(s, x, y) ==
    /\ x - s.x >= 0 /\ x - s.x < ImageW
    /\ y - s.y >= 0 /\ y - s.y < ImageH

\* Sprite.In
In(s, x, y) == Opaque(x - s.x, y - s.y)

\* variant of MoveBy that clamps at the canvas edge without the bitmap size
MoveByIgnoresSize(s, dx, dy) ==
    LET x1 == s.x + dx
        y1 == s.y + dy
        x2 == IF x1 < 0 THEN 0 ELSE x1
        x3 == IF x2 > screenWidth THEN screenWidth ELSE x2
        y2 == IF y1 < 0 THEN 0 ELSE y1
        y3 == IF y2 > screenHeight THEN screenHeight ELSE y2
    IN  [s EXCEPT !.x = x3, !.y = y3]

\* Sprite.MoveBy: the sprite after the move
MoveBy(s, dx, dy) ==
    LET w  == ImageSize[1]
        h  == ImageSize[2]
        x1 == s.x + dx
        y1 == s.y + dy
        x2 == IF x1 < 0 THEN 0 ELSE x1
        x3 == IF x2 > screenWidth - w THEN screenWidth - w ELSE x2
        y2 == IF y1 < 0 THEN 0 ELSE y1
        y3 == IF y2 > screenHeight - h THEN screenHeight - h ELSE y2
    IN  [s EXCEPT !.x = x3, !.y = y3]

\* ----------------------------------------------------- input sources
\* inpututil: a button is just pressed in the first frame it is down and
\* just released in the first frame it is up again
NextPhase(phase, down) ==
    IF down
    THEN IF phase \in {"up", "justReleased"} THEN "justPressed" ELSE "held"
    ELSE IF phase \in {"justPressed", "held"} THEN "justReleased" ELSE "up"

\* the same button one frame later, as long as it does not change
Settle(phase) ==
    IF phase \in {"justPressed", "held"} THEN "held" ELSE "up"

Device(inp, src) == IF src[1] = "mouse" THEN inp.mouse ELSE inp.touch[src[2]]

\* StrokeSource.IsJustReleased
IsJustReleased(inp, src) == Device(inp, src).phase = "justReleased"

\* StrokeSource.Position
SourcePosition(inp, src) == Device(inp, src).pos

\* inpututil.JustPressedTouchIDs: ascending ids
RECURSIVE IdsFrom(_, _)
IdsFrom(inp, id) ==
    IF id >= MaxTouch THEN << >>
    ELSE (IF inp.touch[id].phase = "justPressed" THEN <<id>> ELSE << >>)
         \o IdsFrom(inp, id + 1)

JustPressedTouchIDs(inp) == IdsFrom(inp, 0)

\* ------------------------------------------------------------- Stroke
NewStroke(inp, src) ==
    LET p == SourcePosition(inp, src)
    IN  [source |-> src, initX |-> p[1], initY |-> p[2],
         currentX |-> p[1], currentY |-> p[2],
         released |-> FALSE, draggingObject |-> NilIface]

\* variant of Update that never sees the release
UpdateMissesRelease(s, inp) ==
    IF s.released THEN s
    ELSE LET p == SourcePosition(inp, s.source)
         IN  [s EXCEPT !.currentX = p[1], !.currentY = p[2]]

\* variant of Update that restarts the delta at every sample
UpdateMovesOrigin(s, inp) ==
    IF s.released THEN s
    ELSE IF IsJustReleased(inp, s.source) THEN [s EXCEPT !.released = TRUE]
    ELSE LET p == SourcePosition(inp, s.source)
         IN  [s EXCEPT !.initX = s.currentX, !.initY = s.currentY,
                       !.currentX = p[1], !.currentY = p[2]]

\* variant of Update that samples the position before it looks at the release
UpdateResamples(s, inp) ==
    IF s.released THEN s
    ELSE LET p  == SourcePosition(inp, s.source)
             s1 == [s EXCEPT !.currentX = p[1], !.currentY = p[2]]
         IN  IF IsJustReleased(inp, s.source)
             THEN [s1 EXCEPT !.released = TRUE] ELSE s1

\* Stroke.Update
Update(s, inp) ==
    IF s.released THEN s
    ELSE IF IsJustReleased(inp, s.source) THEN [s EXCEPT !.released = TRUE]
    ELSE LET p == SourcePosition(inp, s.source)
         IN  [s EXCEPT !.currentX = p[1], !.currentY = p[2]]

\* variant of IsReleased that never reports the release
IsReleasedNever(s) == FALSE

IsReleased(s) == s.released

Position(s) == <<s.currentX, s.currentY>>

PositionDiff(s) == <<s.currentX - s.initX, s.currentY - s.initY>>

DraggingObject(s) == s.draggingObject

SetDraggingObject(s, obj) == [s EXCEPT !.draggingObject = obj]

\* --------------------------------------------------------------- Game
\* the Game object as one value
Game == [sprites |-> sprites, spr |-> spr, ChosenSprite |-> ChosenSprite,
         strokes |-> strokes, stk |-> stk, panicked |-> panicked]

\* variant of the spriteAt loop that searches from back to front
spriteAtBackFirst(g, i, x, y) ==
    IF \E j \in 1 .. i : In(g.spr[g.sprites[j]], x, y)
    THEN g.sprites[CHOOSE j \in 1 .. i :
                      /\ In(g.spr[g.sprites[j]], x, y)
                      /\ \A k \in 1 .. (j - 1) : ~In(g.spr[g.sprites[k]], x, y)]
    ELSE NilSprite

\* Game.spriteAt: the loop from index i down
RECURSIVE spriteAtFrom(_, _, _, _)
spriteAtFrom(g, i, x, y) ==
    IF i < 1 THEN NilSprite
    ELSE IF In(g.spr[g.sprites[i]], x, y) THEN g.sprites[i]
    ELSE spriteAtFrom(g, i - 1, x, y)

spriteAt(g, x, y) == spriteAtFrom(g, Len(g.sprites), x, y)

\* index search of updateStroke: first position of s (0-based), -1 when absent
IndexOf(list, s) ==
    IF \E i \in 1 .. Len(list) : list[i] = s
    THEN (CHOOSE i \in 1 .. Len(list) :
              list[i] = s /\ \A j \in 1 .. (i - 1) : list[j] # s) - 1
    ELSE -1

\* variant of MoveToFront that forgets to append the sprite again
MoveToFrontDrops(list, index, s) ==
    SubSeq(list, 1, index) \o SubSeq(list, index + 2, Len(list))

\* variant of MoveToFront that leaves the render order as it is
MoveToFrontKeepsOrder(list, index, s) == list

\* variant of MoveToFront that exchanges the sprite with the last one
MoveToFrontSwaps(list, index, s) ==
    [i \in 1 .. Len(list) |->
        IF i = index + 1 THEN list[Len(list)]
        ELSE IF i = Len(list) THEN s
        ELSE list[i]]

\* append(g.sprites[:index], g.sprites[index+1:]...) and append(g.sprites, s)
MoveToFront(list, index, s) ==
    Append(SubSeq(list, 1, index) \o SubSeq(list, index + 2, Len(list)), s)

\* a new stroke pointer: the smallest one not in use
FreshStroke(g) == CHOOSE i \in StrokeIds \ g.strokes :
                      \A j \in StrokeIds \ g.strokes : i <= j

NewSprite(p) == [x |-> p[1], y |-> p[2], charge |-> 0, chosen |-> FALSE]

\* variant of pointerDown that sets the flag of the hit sprite and leaves the
\* flags of the others as they are
pointerDownKeepsFlags(g, inp, src) ==
    LET s0  == NewStroke(inp, src)
        hit == spriteAt(g, Position(s0)[1], Position(s0)[2])
        s1  == SetDraggingObject(s0, hit)
        id  == FreshStroke(g)
    IN  [g EXCEPT
           !.strokes = @ \cup {id},
           !.stk = [i \in g.strokes \cup {id} |->
                       IF i = id THEN s1 ELSE g.stk[i]],
           !.spr = [i \in DOMAIN g.spr |->
                       [g.spr[i] EXCEPT !.chosen = (@ \/ i = hit)]],
           !.ChosenSprite = hit]

\* variant of pointerDown that does not assign g.ChosenSprite
pointerDownKeepsChosenSprite(g, inp, src) ==
    LET s0  == NewStroke(inp, src)
        hit == spriteAt(g, Position(s0)[1], Position(s0)[2])
        s1  == SetDraggingObject(s0, hit)
        id  == FreshStroke(g)
    IN  [g EXCEPT
           !.strokes = @ \cup {id},
           !.stk = [i \in g.strokes \cup {id} |->
                       IF i = id THEN s1 ELSE g.stk[i]],
           !.spr = [i \in DOMAIN g.spr |->
                       [g.spr[i] EXCEPT !.chosen = (i = hit)]]]

\* variant of pointerDown that sets the drag reference only when a sprite is
\* hit, leaving the untyped nil of a new stroke otherwise
pointerDownNoDrag(g, inp, src) ==
    LET s0  == NewStroke(inp, src)
        hit == spriteAt(g, Position(s0)[1], Position(s0)[2])
        s1  == IF hit = NilSprite THEN s0 ELSE SetDraggingObject(s0, hit)
        id  == FreshStroke(g)
    IN  [g EXCEPT
           !.strokes = @ \cup {id},
           !.stk = [i \in g.strokes \cup {id} |->
                       IF i = id THEN s1 ELSE g.stk[i]],
           !.spr = [i \in DOMAIN g.spr |->
                       [g.spr[i] EXCEPT !.chosen = (i = hit)]],
           !.ChosenSprite = hit]

\* one pointer-down block of Game.update (the mouse one or the touch one)
pointerDown(g, inp, src) ==
    LET s0  == NewStroke(inp, src)
        hit == spriteAt(g, Position(s0)[1], Position(s0)[2])
        s1  == SetDraggingObject(s0, hit)
        id  == FreshStroke(g)
    IN  [g EXCEPT
           !.strokes = @ \cup {id},
           !.stk = [i \in g.strokes \cup {id} |->
                       IF i = id THEN s1 ELSE g.stk[i]],
           !.spr = [i \in DOMAIN g.spr |->
                       [g.spr[i] EXCEPT !.chosen = (i = hit)]],
           !.ChosenSprite = hit]

\* for _, id := range inpututil.JustPressedTouchIDs() { ... }
RECURSIVE touchDowns(_, _, _)
touchDowns(g, inp, ids) ==
    IF ids = << >> THEN g
    ELSE touchDowns(pointerDown(g, inp, TouchSrc(Head(ids))), inp, Tail(ids))

\* variant of the pointer-down blocks that handles the touches before the
\* mouse
pointerDownsTouchFirst(g, inp) ==
    LET g1 == touchDowns(g, inp, JustPressedTouchIDs(inp))
    IN  IF inp.mouse.phase = "justPressed"
        THEN pointerDown(g1, inp, MouseSrc) ELSE g1

\* both pointer-down blocks
pointerDowns(g, inp) ==
    LET g1 == IF inp.mouse.phase = "justPressed"
              THEN pointerDown(g, inp, MouseSrc) ELSE g
    IN  touchDowns(g1, inp, JustPressedTouchIDs(inp))

\* the sources that are just pressed, in the order the blocks handle them
DownSources(inp) ==
    (IF inp.mouse.phase = "justPressed" THEN <<MouseSrc>> ELSE << >>)
    \o [i \in 1 .. Len(JustPressedTouchIDs(inp)) |->
           TouchSrc(JustPressedTouchIDs(inp)[i])]

\* variant of the 'A' block that puts the new sprite at the back
keyAPrepends(g, p) ==
    LET id == Len(g.sprites) + 1
    IN  [g EXCEPT
           !.spr = [i \in DOMAIN g.spr \cup {id} |->
                       IF i = id THEN NewSprite(p) ELSE g.spr[i]],
           !.sprites = <<id>> \o g.sprites]

\* 'A': a new neutral sprite at a random place
keyA(g, p) ==
    LET id == Len(g.sprites) + 1
    IN  [g EXCEPT
           !.spr = [i \in DOMAIN g.spr \cup {id} |->
                       IF i = id THEN NewSprite(p) ELSE g.spr[i]],
           !.sprites = Append(g.sprites, id)]

\* variant of the charge blocks without the test of the chosen flag
addChargeToAll(g, d) ==
    [g EXCEPT !.spr = [i \in DOMAIN g.spr |->
        [g.spr[i] EXCEPT !.charge = @ + d]]]

\* 'P' and 'N': for _, s := range g.sprites { if s.chosen { s.charge += d } }
addCharge(g, d) ==
    [g EXCEPT !.spr = [i \in DOMAIN g.spr |->
        IF g.spr[i].chosen THEN [g.spr[i] EXCEPT !.charge = @ + d]
        ELSE g.spr[i]]]

\* variant of the arrow blocks without the test of the chosen flag
nudgeAll(g, dx, dy) ==
    [g EXCEPT !.spr = [i \in DOMAIN g.spr |->
        [g.spr[i] EXCEPT !.x = @ + dx, !.y = @ + dy]]]

\* arrows: for _, s := range g.sprites { if s.chosen { s.x += dx; s.y += dy } }
nudge(g, dx, dy) ==
    [g EXCEPT !.spr = [i \in DOMAIN g.spr |->
        IF g.spr[i].chosen THEN [g.spr[i] EXCEPT !.x = @ + dx, !.y = @ + dy]
        ELSE g.spr[i]]]

\* variant of the key blocks with the two charge keys exchanged
keyBlocksSwapped(g, K, p) ==
    LET g1 == IF "A" \in K THEN keyA(g, p) ELSE g
        g2 == IF "P" \in K THEN addCharge(g1, -1) ELSE g1
        g3 == IF "N" \in K THEN addCharge(g2, 1) ELSE g2
        g4 == IF "Up" \in K THEN nudge(g3, 0, -(screenHeight \div 10)) ELSE g3
        g5 == IF "Down" \in K THEN nudge(g4, 0, screenHeight \div 10) ELSE g4
        g6 == IF "Right" \in K THEN nudge(g5, screenWidth \div 10, 0) ELSE g5
        g7 == IF "Left" \in K THEN nudge(g6, -(screenWidth \div 10), 0) ELSE g6
    IN  g7

\* the key blocks of Game.update in source order, for the set K of keys that
\* are just pressed; p is the place drawn for a new sprite
keyBlocks(g, K, p) ==
    LET g1 == IF "A" \in K THEN keyA(g, p) ELSE g
        g2 == IF "P" \in K THEN addCharge(g1, 1) ELSE g1
        g3 == IF "N" \in K THEN addCharge(g2, -1) ELSE g2
        g4 == IF "Up" \in K THEN nudge(g3, 0, -(screenHeight \div 10)) ELSE g3
        g5 == IF "Down" \in K THEN nudge(g4, 0, screenHeight \div 10) ELSE g4
        g6 == IF "Right" \in K THEN nudge(g5, screenWidth \div 10, 0) ELSE g5
        g7 == IF "Left" \in K THEN nudge(g6, -(screenWidth \div 10), 0) ELSE g6
    IN  g7

\* variant of updateStroke that commits the displacement on every update
updateStrokeLive(g, inp, id) ==
    LET u     == Update(g.stk[id], inp)
        g1    == [g EXCEPT !.stk[id] = u]
        d     == DraggingObject(u)
        diff  == PositionDiff(u)
        index == IndexOf(g.sprites, d)
        g2    == IF d \in DOMAIN g.spr
                 THEN [g1 EXCEPT !.spr[d] = MoveBy(@, diff[1], diff[2])]
                 ELSE g1
    IN  IF ~IsReleased(u) THEN g2
        ELSE IF d = NilIface THEN [g1 EXCEPT !.panicked = TRUE]
        ELSE IF d = NilSprite THEN g1
        ELSE IF index = -1 THEN [g2 EXCEPT !.panicked = TRUE]
        ELSE [g2 EXCEPT
                !.sprites = MoveToFront(g.sprites, index, d),
                !.stk[id] = SetDraggingObject(u, NilIface)]

\* variant of updateStroke that brings the dragged sprite to the front while
\* the stroke is still active
updateStrokePromotes(g, inp, id) ==
    LET u     == Update(g.stk[id], inp)
        g1    == [g EXCEPT !.stk[id] = u]
        d     == DraggingObject(u)
        diff  == PositionDiff(u)
        index == IndexOf(g.sprites, d)
    IN  IF ~IsReleased(u)
        THEN IF index = -1 THEN g1
             ELSE [g1 EXCEPT !.sprites = MoveToFront(g.sprites, index, d)]
        ELSE IF d = NilIface THEN [g1 EXCEPT !.panicked = TRUE]
        ELSE IF d = NilSprite THEN g1
        ELSE LET g2 == [g1 EXCEPT !.spr[d] = MoveBy(@, diff[1], diff[2])]
             IN  IF index = -1 THEN [g2 EXCEPT !.panicked = TRUE]
                 ELSE [g2 EXCEPT
                         !.sprites = MoveToFront(g.sprites, index, d),
                         !.stk[id] = SetDraggingObject(u, NilIface)]

\* variant of updateStroke without the test for a nil sprite: MoveBy on the
\* nil pointer panics
updateStrokeNoNilCheck(g, inp, id) ==
    LET u     == Update(g.stk[id], inp)
        g1    == [g EXCEPT !.stk[id] = u]
        d     == DraggingObject(u)
        diff  == PositionDiff(u)
        index == IndexOf(g.sprites, d)
    IN  IF ~IsReleased(u) THEN g1
        ELSE IF d = NilIface THEN [g1 EXCEPT !.panicked = TRUE]
        ELSE IF d = NilSprite THEN [g1 EXCEPT !.panicked = TRUE]
        ELSE LET g2 == [g1 EXCEPT !.spr[d] = MoveBy(@, diff[1], diff[2])]
             IN  IF index = -1 THEN [g2 EXCEPT !.panicked = TRUE]
                 ELSE [g2 EXCEPT
                         !.sprites = MoveToFront(g.sprites, index, d),
                         !.stk[id] = SetDraggingObject(u, NilIface)]

\* Game.updateStroke
updateStroke(g, inp, id) ==
    LET u     == Update(g.stk[id], inp)
        g1    == [g EXCEPT !.stk[id] = u]
        d     == DraggingObject(u)
        diff  == PositionDiff(u)
        index == IndexOf(g.sprites, d)
    IN  IF ~IsReleased(u) THEN g1
        ELSE IF d = NilIface THEN [g1 EXCEPT !.panicked = TRUE]
        ELSE IF d = NilSprite THEN g1
        ELSE LET g2 == [g1 EXCEPT !.spr[d] = MoveBy(@, diff[1], diff[2])]
             IN  IF index = -1 THEN [g2 EXCEPT !.panicked = TRUE]
                 ELSE [g2 EXCEPT
                         !.sprites = MoveToFront(g.sprites, index, d),
                         !.stk[id] = SetDraggingObject(u, NilIface)]

\* variant of the loop body that keeps released strokes in the set
loopBodyKeeps(g, inp, id) == updateStroke(g, inp, id)

\* one iteration of: for s := range g.strokes { g.updateStroke(s); if
\* s.IsReleased() { delete(g.strokes, s) } }
loopBody(g, inp, id) ==
    LET g1 == updateStroke(g, inp, id)
    IN  IF g1.panicked THEN g1
        ELSE IF IsReleased(g1.stk[id])
        THEN [g1 EXCEPT !.strokes = @ \ {id},
                        !.stk = [i \in g1.strokes \ {id} |-> g1.stk[i]]]
        ELSE g1

\* the draw half, last loop: where the sprite dragged by stroke id is drawn,
\* sprite.Draw(screen, dx, dy, 0.5) translating by (s.x + dx, s.y + dy)
previewPlace(g, id) ==
    LET s    == g.spr[DraggingObject(g.stk[id])]
        diff == PositionDiff(g.stk[id])
    IN  <<s.x + diff[1], s.y + diff[2]>>

\* the type assertions of the draw half
drawPanics(g) == \E id \in g.strokes : DraggingObject(g.stk[id]) = NilIface

Install(g) ==
    /\ sprites' = g.sprites
    /\ spr' = g.spr
    /\ ChosenSprite' = g.ChosenSprite
    /\ strokes' = g.strokes
    /\ stk' = g.stk
    /\ panicked' = g.panicked

Init ==
    /\ pc = "pointers"
    /\ sprites = [i \in 1 .. InitialSprites |-> i]
    /\ spr = [i \in 1 .. InitialSprites |-> NewSprite(InitPlaces[i])]
    /\ ChosenSprite = NilSprite
    /\ strokes = {}
    /\ stk = << >>
    /\ panicked = FALSE
    /\ input = [mouse |-> [phase |-> "up", pos |-> NoPoint],
                touch |-> [id \in TouchIDs |-> [phase |-> "up", pos |-> NoPoint]]]
    /\ todo = {}
    /\ keysUsed = 0
    /\ adds = 0
    /\ visits = [id \in StrokeIds |-> 0]
    /\ tally = [i \in SpritePtrs |-> [P |-> 0, N |-> 0]]
    /\ ev = [op |-> "init"]

\* what the engine reports for one device in the next frame
Sample(dev, down, p) ==
    [phase |-> NextPhase(dev.phase, down), pos |-> IF down THEN p ELSE NoPoint]

\* the engine polls the devices and calls Game.update: the pointer-down blocks;
\* Downs is the set of touch patterns the engine may report
PointersOf(Downs) ==
    /\ pc = "pointers" /\ ~panicked
    /\ \E down \in BOOLEAN, p \in MousePoints,
          downs \in Downs, ps \in [TouchIDs -> TouchPoints] :
          input' = [mouse |-> Sample(input.mouse, down, p),
                    touch |-> [id \in TouchIDs |->
                                  Sample(input.touch[id], downs[id], ps[id])]]
    /\ Install(pointerDowns(Game, input'))
    /\ pc' = "keys"
    /\ ev' = [op |-> "pointers", downs |-> DownSources(input'), before |-> Game]
    /\ UNCHANGED <<todo, keysUsed, adds, visits, tally>>

Pointers == PointersOf([TouchIDs -> BOOLEAN])

\* the presses of the charge keys in K, counted for the selected sprite
Tallied(K) ==
    IF ChosenSprite \in SpritePtrs
    THEN [tally EXCEPT ![ChosenSprite] =
             [P |-> @.P + (IF "P" \in K THEN 1 ELSE 0),
              N |-> @.N + (IF "N" \in K THEN 1 ELSE 0)]]
    ELSE tally

\* the key blocks, for the keys of Names the engine may report as just
\* pressed, while fewer than budget presses have been accepted
KeysOf(Names, budget) ==
    /\ pc = "keys" /\ ~panicked
    /\ \E K \in SUBSET Names :
       \E p \in (IF "A" \in K /\ adds < Len(AddPlaces)
                THEN {AddPlaces[adds + 1]} ELSE {NoPoint}) :
          /\ keysUsed + Cardinality(K) <= budget
          /\ "A" \in K => adds < Len(AddPlaces)
          /\ Install(keyBlocks(Game, K, p))
          /\ keysUsed' = keysUsed + Cardinality(K)
          /\ adds' = IF "A" \in K THEN adds + 1 ELSE adds
          /\ tally' = Tallied(K)
          /\ ev' = [op |-> "keys", keys |-> K, before |-> Game]
    /\ todo' = strokes
    /\ pc' = IF strokes = {} THEN "draw" ELSE "strokes"
    /\ UNCHANGED <<input, visits>>

Keys == KeysOf(KeyNames, MaxKeys)

\* one iteration of the range loop over g.strokes, in any order
StrokeStep ==
    /\ pc = "strokes" /\ ~panicked
    /\ \E id \in todo :
          /\ Install(loopBody(Game, input, id))
          /\ todo' = todo \ {id}
          /\ pc' = IF todo \ {id} = {} THEN "draw" ELSE "strokes"
          /\ visits' = [visits EXCEPT ![id] = @ + 1]
          /\ ev' = [op |-> "updateStroke", stroke |-> id, before |-> Game]
    /\ UNCHANGED <<input, keysUsed, adds, tally>>

\* the draw half; the callback returns and the frame ends
Draw ==
    /\ pc = "draw" /\ ~panicked
    /\ \E skipped \in BOOLEAN :
          /\ panicked' = (~skipped /\ drawPanics(Game))
          /\ ev' = [op |-> "draw"]
    /\ input' = [mouse |-> [input.mouse EXCEPT !.phase = Settle(@)],
                 touch |-> [id \in TouchIDs |->
                               [input.touch[id] EXCEPT !.phase = Settle(@)]]]
    /\ pc' = "pointers"
    /\ visits' = [id \in StrokeIds |-> 0]
    /\ UNCHANGED <<sprites, spr, ChosenSprite, strokes, stk, todo, keysUsed,
                   adds, tally>>

Next ==
    \/ Pointers
    \/ Keys
    \/ StrokeStep
    \/ Draw

Spec == Init /\ [][Next]_vars

TypeOK ==
    /\ pc \in {"init", "aborted", "pointers", "keys", "strokes", "draw",
              "MoveBy", "moved"}
    /\ strokes \subseteq StrokeIds
    /\ DOMAIN stk = strokes
    /\ DOMAIN spr = Range(sprites)
    /\ todo \subseteq strokes
    /\ panicked \in BOOLEAN

\* ------------------------------------------------------------ the claims
Chosen == { i \in DOMAIN spr : spr[i].chosen }

Place(s) == <<s.x, s.y>>

\* the update of the stroke loop described by ev found its source just
\* released
ReleaseSeen ==
    /\ ev.op = "updateStroke"
    /\ IsJustReleased(input, ev.before.stk[ev.stroke].source)

\* the sprite the stroke of the last update was dragging
Dragged == ev.before.stk[ev.stroke].draggingObject

\* C1: at most one sprite of the list has its chosen flag set, in every state
\* of every frame
C1_AtMostOneChosen == Cardinality(Chosen) <= 1

\* a pointer-down has moved the selection from one sprite to another
C1_Witness ==
    /\ ev.op = "pointers"
    /\ ev.downs # << >>
    /\ ev.before.ChosenSprite # NilSprite
    /\ ChosenSprite # NilSprite
    /\ ChosenSprite # ev.before.ChosenSprite
    /\ Chosen = {ChosenSprite}

\* C2: PositionDiff of every stroke is current minus origin; a stroke made in
\* this frame's pointer-down blocks has current = origin = the position of its
\* source and delta (0, 0); an update never changes the origin of a stroke, and
\* after an update without release the delta is the sampled position minus
\* the origin the stroke had before
C2_PositionDiff ==
    /\ \A id \in strokes :
          PositionDiff(stk[id]) = << stk[id].currentX - stk[id].initX,
                                     stk[id].currentY - stk[id].initY >>
    /\ ev.op = "pointers" =>
          /\ \A id \in ev.before.strokes :
                id \in strokes /\ stk[id] = ev.before.stk[id]
          /\ \A id \in strokes \ ev.before.strokes :
                /\ <<stk[id].initX, stk[id].initY>>
                      = SourcePosition(input, stk[id].source)
                /\ Position(stk[id]) = <<stk[id].initX, stk[id].initY>>
                /\ PositionDiff(stk[id]) = <<0, 0>>
    /\ ev.op = "updateStroke" =>
          /\ \A id \in strokes :
                /\ id \in ev.before.strokes
                /\ stk[id].initX = ev.before.stk[id].initX
                /\ stk[id].initY = ev.before.stk[id].initY
          /\ ev.stroke \in strokes =>
                LET p == SourcePosition(input, stk[ev.stroke].source)
                    o == ev.before.stk[ev.stroke]
                IN  PositionDiff(stk[ev.stroke])
                       = <<p[1] - o.initX, p[2] - o.initY>>

\* a stroke that had moved away from its origin has been updated again and
\* is back at its origin
C2_Witness ==
    /\ ev.op = "updateStroke"
    /\ ev.stroke \in strokes
    /\ PositionDiff(ev.before.stk[ev.stroke]) # <<0, 0>>
    /\ PositionDiff(stk[ev.stroke]) = <<0, 0>>

\* C3: an update of a stroke moves a sprite only when it detects the release
\* of a stroke that drags a sprite s: then s is moved by MoveBy(PositionDiff)
\* once, no other sprite moves, and the stroke leaves the set, so it commits
\* nothing again; every other update leaves every sprite where it is
C3_OneDisplacement ==
    ev.op = "updateStroke" =>
        IF ReleaseSeen /\ Dragged \in DOMAIN ev.before.spr
        THEN LET diff == PositionDiff(ev.before.stk[ev.stroke])
             IN  /\ spr[Dragged]
                       = MoveBy(ev.before.spr[Dragged], diff[1], diff[2])
                 /\ \A i \in DOMAIN spr \ {Dragged} : spr[i] = ev.before.spr[i]
                 /\ ev.stroke \notin strokes
        ELSE spr = ev.before.spr

\* a release has moved the dragged sprite
C3_Witness ==
    /\ ReleaseSeen
    /\ Dragged \in DOMAIN spr
    /\ Place(spr[Dragged]) # Place(ev.before.spr[Dragged])
    /\ PositionDiff(ev.before.stk[ev.stroke]) # <<0, 0>>

\* C4: right after updateStroke has processed the release of a stroke that
\* drags sprite s, s is the last element of the sprite list
C4_PromotedToFront ==
    (ReleaseSeen /\ Dragged \in DOMAIN ev.before.spr) =>
        Last(sprites) = Dragged

\* the released sprite was the first of three sprites
C4_Witness ==
    /\ ReleaseSeen
    /\ Dragged \in DOMAIN spr
    /\ Len(ev.before.sprites) = 3
    /\ ev.before.sprites[1] = Dragged
    /\ Last(sprites) = Dragged

\* indices of the sprites with an opaque pixel at point p
HitsAt(p) ==
    { i \in 1 .. Len(sprites) :
         Opaque(p[1] - spr[sprites[i]].x, p[2] - spr[sprites[i]].y) }

\* indices of the sprites whose bounding box contains point p
BoxesAt(p) ==
    { i \in 1 .. Len(sprites) :
         /\ p[1] - spr[sprites[i]].x \in 0 .. (ImageW - 1)
         /\ p[2] - spr[sprites[i]].y \in 0 .. (ImageH - 1) }

\* the points of this frame's pointer-downs
DownPoints ==
    { SourcePosition(input, ev.downs[i]) : i \in 1 .. Len(ev.downs) }

\* C5: at every point, in every reachable arrangement of the sprites, spriteAt
\* returns the sprite of greatest index among those that are opaque there
C5_TopmostHit ==
    \A p \in Points :
        HitsAt(p) # {} =>
            \E i \in HitsAt(p) :
                /\ spriteAt(Game, p[1], p[2]) = sprites[i]
                /\ \A j \in HitsAt(p) : j <= i

\* a pointer-down has picked the upper of two sprites that are opaque at the
\* point
C5_Witness ==
    /\ ev.op = "pointers"
    /\ \E p \in DownPoints :
          /\ Cardinality(HitsAt(p)) >= 2
          /\ spriteAt(Game, p[1], p[2]) = ChosenSprite
          /\ ChosenSprite # NilSprite

\* C6: spriteAt returns nil exactly when no sprite of the list is opaque at the
\* point (and for the empty list), and a sprite it returns is opaque there
C6_NilIffNoHit ==
    /\ \A p \in Points :
          LET r == spriteAt(Game, p[1], p[2])
          IN  /\ (r = NilSprite) <=> (HitsAt(p) = {})
              /\ r # NilSprite =>
                    /\ r \in Range(sprites)
                    /\ Opaque(p[1] - spr[r].x, p[2] - spr[r].y)
              /\ spriteAt([Game EXCEPT !.sprites = << >>], p[1], p[2])
                    = NilSprite

\* a pointer-down inside the bounding box of a sprite, on a transparent pixel,
\* has picked nothing
C6_Witness ==
    /\ ev.op = "pointers"
    /\ ev.downs # << >>
    /\ ChosenSprite = NilSprite
    /\ \E p \in DownPoints : BoxesAt(p) # {} /\ HitsAt(p) = {}

\* C7: the key blocks leave every sprite that is not chosen as it was; when
\* only charge keys are pressed, the positions, the chosen flags, the render
\* order, the selection and the strokes stay as they were, so that only the
\* charge of chosen sprites can change
C7_ChargeOnlyChosen ==
    ev.op = "keys" =>
        /\ \A i \in DOMAIN ev.before.spr :
              ~ev.before.spr[i].chosen => spr[i].charge = ev.before.spr[i].charge
        /\ (ev.keys # {} /\ ev.keys \subseteq {"P", "N"}) =>
              /\ sprites = ev.before.sprites
              /\ ChosenSprite = ev.before.ChosenSprite
              /\ strokes = ev.before.strokes
              /\ stk = ev.before.stk
              /\ DOMAIN spr = DOMAIN ev.before.spr
              /\ \A i \in DOMAIN spr :
                    /\ Place(spr[i]) = Place(ev.before.spr[i])
                    /\ spr[i].chosen = ev.before.spr[i].chosen
                    /\ ~spr[i].chosen => spr[i] = ev.before.spr[i]

\* a charge key has changed the charge of the chosen sprite while other
\* sprites are not chosen
C7_Witness ==
    /\ ev.op = "keys"
    /\ ev.keys \in {{"P"}, {"N"}}
    /\ ChosenSprite # NilSprite
    /\ spr[ChosenSprite].charge # ev.before.spr[ChosenSprite].charge
    /\ \E i \in DOMAIN spr : ~spr[i].chosen

\* C8: in a frame no stroke is updated twice; when the loop is over every
\* stroke of the set has been updated once, none of them is released, and a
\* stroke whose release an update has seen is out of the set right away
C8_UpdatedOnceAndRemoved ==
    /\ \A id \in StrokeIds : visits[id] <= 1
    /\ ReleaseSeen => ev.stroke \notin strokes
    /\ pc = "draw" =>
          /\ todo = {}
          /\ \A id \in strokes : visits[id] = 1 /\ ~IsReleased(stk[id])

\* the loop is over: a stroke made in this frame has been updated and stays,
\* and a stroke released in this frame is gone
C8_Witness ==
    /\ pc = "draw"
    /\ \E id \in strokes :
          Device(input, stk[id].source).phase = "justPressed" /\ visits[id] = 1
    /\ \E id \in StrokeIds \ strokes : visits[id] = 1

\* C9: the stroke set never holds two strokes of the same source
C9_OneStrokePerSource ==
    \A a \in strokes, b \in strokes :
        stk[a].source = stk[b].source => a = b

\* the mouse and a touch each have a stroke, after an earlier stroke of the
\* mouse has been released
C9_Witness ==
    /\ \E a \in strokes : stk[a].source = MouseSrc
    /\ \E b \in strokes : stk[b].source[1] = "touch"
    /\ \E a \in strokes : stk[a].source = MouseSrc /\ a # 1

\* C10: the sprite list holds the two initial sprites and one sprite per 'A'
\* press, each once, and no block of the frame takes a sprite out of it
C10_NeverDestroyed ==
    /\ Len(sprites) = InitialSprites + adds
    /\ Range(sprites) = 1 .. Len(sprites)
    /\ DOMAIN spr = Range(sprites)
    /\ ev.op \in {"pointers", "keys", "updateStroke"} =>
          /\ Len(sprites) >= Len(ev.before.sprites)
          /\ Range(ev.before.sprites) \subseteq Range(sprites)

\* a sprite has been added and a release has reordered the three sprites
C10_Witness ==
    /\ adds >= 1
    /\ ReleaseSeen
    /\ Dragged \in DOMAIN spr
    /\ sprites # ev.before.sprites
    /\ Len(sprites) = InitialSprites + 1

\* the chosen flags and g.ChosenSprite are those of the state before the last
\* block; a sprite made by the block is not chosen
SelectionKept ==
    /\ ChosenSprite = ev.before.ChosenSprite
    /\ \A i \in DOMAIN spr :
          spr[i].chosen = (i \in DOMAIN ev.before.spr /\ ev.before.spr[i].chosen)

\* C11: after the pointer-down blocks of a frame with pointer-downs, the
\* selection is the sprite spriteAt returns at the point of the last
\* pointer-down handled (the mouse first, then the just-pressed touch ids in
\* reported order), the flag of that sprite alone is set, and no flag is set
\* when that pointer-down hit nothing; without a pointer-down the blocks leave
\* the selection as it was, and so do the key blocks and the stroke loop in
\* every frame
C11_LastPointerDownSelects ==
    /\ (ev.op = "pointers" /\ ev.downs # << >>) =>
          LET p   == SourcePosition(input, Last(ev.downs))
              hit == spriteAt(ev.before, p[1], p[2])
          IN  /\ ChosenSprite = hit
              /\ Chosen = IF hit = NilSprite THEN {} ELSE {hit}
    /\ (ev.op = "pointers" /\ ev.downs = << >>) => SelectionKept
    /\ ev.op \in {"keys", "updateStroke"} => SelectionKept

\* the mouse and a touch went down in the same frame on two different
\* sprites, and the sprite under the touch is the selection
C11_Witness ==
    /\ ev.op = "pointers"
    /\ Len(ev.downs) = 2
    /\ LET p1 == SourcePosition(input, ev.downs[1])
           p2 == SourcePosition(input, ev.downs[2])
       IN  /\ spriteAt(ev.before, p1[1], p1[2]) # NilSprite
           /\ spriteAt(ev.before, p2[1], p2[2]) # NilSprite
           /\ spriteAt(ev.before, p1[1], p1[2]) # spriteAt(ev.before, p2[1], p2[2])
           /\ ChosenSprite = spriteAt(ev.before, p2[1], p2[2])

\* ------------------------------------------------- the charge keys alone
\* the program driven by the mouse and the two charge keys: the touch screen
\* is never touched and no other key is pressed, so that several presses of
\* 'P' and 'N' fit in one run
MousePointers == PointersOf({[id \in TouchIDs |-> FALSE]})

ChargeKeys == KeysOf({"P", "N"}, MaxPresses)

NextCharge ==
    \/ MousePointers
    \/ ChargeKeys
    \/ StrokeStep
    \/ Draw

SpecCharge == Init /\ [][NextCharge]_vars

\* 1 when key k is in K, else 0
Pressed(k, K) == IF k \in K THEN 1 ELSE 0

\* C12: a press of 'P' adds one step to the charge of the chosen sprite and a
\* press of 'N' takes one step off; the charge of every sprite is the number
\* of 'P' presses minus the number of 'N' presses made while it was selected
C12_ChargeSteps ==
    /\ \A i \in DOMAIN spr : spr[i].charge = tally[i].P - tally[i].N
    /\ ev.op = "keys" =>
          \A i \in DOMAIN ev.before.spr :
              ev.before.spr[i].chosen =>
                  spr[i].charge = ev.before.spr[i].charge
                                    + Pressed("P", ev.keys) - Pressed("N", ev.keys)

\* two presses of 'P' and one of 'N' have left the selected sprite one step up
C12_Witness ==
    /\ ev.op = "keys"
    /\ ev.keys = {"P"}
    /\ ChosenSprite # NilSprite
    /\ tally[ChosenSprite] = [P |-> 2, N |-> 1]
    /\ spr[ChosenSprite].charge = 1

\* ------------------------------------------------- the 400x300 variant
\* main.go is the same program with a 400x300 window, the charge keys '0' and
\* '9', and initial charges drawn at random.  Its Stroke, spriteAt,
\* pointer-down blocks and draw half have the text of the 800x600 program;
\* the definitions below are the ones that differ.
FullScreenWidth  == 400
FullScreenHeight == 300
mainScreenWidth  == FullScreenWidth
mainScreenHeight == (FullScreenHeight * 9) \div 10

mainKeyNames == {"0", "9"}

\* rand.Seed(time.Now().UnixNano()): what init of main.go draws for the two
\* sprites, Intn(screenWidth - w), Intn(screenHeight - h) and Float32() each,
\* under the seeds 60337, 12818 and 1572566400000000000; in main.go a charge
\* is counted in ten-thousandths, rounded
mainStarts ==
    { << [x |-> 301, y |-> 219, charge |-> 2707],
         [x |-> 149, y |-> 130, charge |-> 3167] >>,
      << [x |-> 0, y |-> 0, charge |-> 56],
         [x |-> 99, y |-> 52, charge |-> 7275] >>,
      << [x |-> 242, y |-> 183, charge |-> 5385],
         [x |-> 237, y |-> 109, charge |-> 7537] >> }

\* the 0.1 of the charge blocks, in ten-thousandths
mainChargeStep == 1000

\* Sprite.MoveBy of main.go
mainMoveBy(s, dx, dy) ==
    LET w  == ImageSize[1]
        h  == ImageSize[2]
        x1 == s.x + dx
        y1 == s.y + dy
        x2 == IF x1 < 0 THEN 0 ELSE x1
        x3 == IF x2 > mainScreenWidth - w THEN mainScreenWidth - w ELSE x2
        y2 == IF y1 < 0 THEN 0 ELSE y1
        y3 == IF y2 > mainScreenHeight - h THEN mainScreenHeight - h ELSE y2
    IN  [s EXCEPT !.x = x3, !.y = y3]

\* Game.updateStroke of main.go
mainUpdateStroke(g, inp, id) ==
    LET u     == Update(g.stk[id], inp)
        g1    == [g EXCEPT !.stk[id] = u]
        d     == DraggingObject(u)
        diff  == PositionDiff(u)
        index == IndexOf(g.sprites, d)
    IN  IF ~IsReleased(u) THEN g1
        ELSE IF d = NilIface THEN [g1 EXCEPT !.panicked = TRUE]
        ELSE IF d = NilSprite THEN g1
        ELSE LET g2 == [g1 EXCEPT !.spr[d] = mainMoveBy(@, diff[1], diff[2])]
             IN  IF index = -1 THEN [g2 EXCEPT !.panicked = TRUE]
                 ELSE [g2 EXCEPT
                         !.sprites = MoveToFront(g.sprites, index, d),
                         !.stk[id] = SetDraggingObject(u, NilIface)]

\* one iteration of the stroke loop of main.go
mainLoopBody(g, inp, id) ==
    LET g1 == mainUpdateStroke(g, inp, id)
    IN  IF g1.panicked THEN g1
        ELSE IF IsReleased(g1.stk[id])
        THEN [g1 EXCEPT !.strokes = @ \ {id},
                        !.stk = [i \in g1.strokes \ {id} |-> g1.stk[i]]]
        ELSE g1

\* the key blocks of Game.update of main.go in source order
mainKeyBlocks(g, K, p) ==
    LET g1 == IF "A" \in K THEN keyA(g, p) ELSE g
        g2 == IF "0" \in K THEN addCharge(g1, mainChargeStep) ELSE g1
        g3 == IF "9" \in K THEN addCharge(g2, -mainChargeStep) ELSE g2
        g4 == IF "Up" \in K THEN nudge(g3, 0, -(mainScreenHeight \div 10)) ELSE g3
        g5 == IF "Down" \in K THEN nudge(g4, 0, mainScreenHeight \div 10) ELSE g4
        g6 == IF "Right" \in K THEN nudge(g5, mainScreenWidth \div 10, 0) ELSE g5
        g7 == IF "Left" \in K THEN nudge(g6, -(mainScreenWidth \div 10), 0) ELSE g6
    IN  g7

\* init of main.go
mainInit ==
    /\ pc = "pointers"
    /\ sprites = [i \in 1 .. InitialSprites |-> i]
    /\ \E start \in mainStarts :
          spr = [i \in 1 .. InitialSprites |->
                    [NewSprite(<<start[i].x, start[i].y>>)
                        EXCEPT !.charge = start[i].charge]]
    /\ ChosenSprite = NilSprite
    /\ strokes = {}
    /\ stk = << >>
    /\ panicked = FALSE
    /\ input = [mouse |-> [phase |-> "up", pos |-> NoPoint],
                touch |-> [id \in TouchIDs |-> [phase |-> "up", pos |-> NoPoint]]]
    /\ todo = {}
    /\ keysUsed = 0
    /\ adds = 0
    /\ visits = [id \in StrokeIds |-> 0]
    /\ tally = [i \in SpritePtrs |-> [P |-> 0, N |-> 0]]
    /\ ev = [op |-> "init"]

\* the key blocks of main.go, for presses of the digit keys
mainKeys ==
    /\ pc = "keys" /\ ~panicked
    /\ \E K \in SUBSET mainKeyNames :
          /\ keysUsed + Cardinality(K) <= MaxPresses
          /\ Install(mainKeyBlocks(Game, K, NoPoint))
          /\ keysUsed' = keysUsed + Cardinality(K)
          /\ ev' = [op |-> "keys", keys |-> K, before |-> Game]
    /\ todo' = strokes
    /\ pc' = IF strokes = {} THEN "draw" ELSE "strokes"
    /\ UNCHANGED <<input, adds, visits, tally>>

\* one iteration of the stroke loop of main.go, in any order
mainStrokeStep ==
    /\ pc = "strokes" /\ ~panicked
    /\ \E id \in todo :
          /\ Install(mainLoopBody(Game, input, id))
          /\ todo' = todo \ {id}
          /\ pc' = IF todo \ {id} = {} THEN "draw" ELSE "strokes"
          /\ visits' = [visits EXCEPT ![id] = @ + 1]
          /\ ev' = [op |-> "updateStroke", stroke |-> id, before |-> Game]
    /\ UNCHANGED <<input, keysUsed, adds, tally>>

mainNext ==
    \/ MousePointers
    \/ mainKeys
    \/ mainStrokeStep
    \/ Draw

SpecMain == mainInit /\ [][mainNext]_vars

\* C13: in main.go a press of '9' alone raises the charge of the chosen sprite
\* and a press of '0' alone lowers it, as the help text says
C13_HelpText ==
    ev.op = "keys" =>
        \A i \in DOMAIN ev.before.spr :
            ev.before.spr[i].chosen =>
                /\ ev.keys = {"9"} => spr[i].charge > ev.before.spr[i].charge
                /\ ev.keys = {"0"} => spr[i].charge < ev.before.spr[i].charge

\* ------------------------------------------------------------- startup
\* the assets init decodes, in the order it decodes them
Assets == <<"negative", "neutral", "positive", "font">>

\* the Game init builds once every asset is decoded
theGame ==
    [sprites |-> [i \in 1 .. InitialSprites |-> i],
     spr |-> [i \in 1 .. InitialSprites |-> NewSprite(InitPlaces[i])],
     ChosenSprite |-> NilSprite,
     strokes |-> {},
     stk |-> << >>,
     panicked |-> FALSE]

\* the process before init has run: theGame is nil
NoGame ==
    /\ sprites = << >>
    /\ spr = << >>
    /\ ChosenSprite = NilSprite
    /\ strokes = {}
    /\ stk = << >>
    /\ panicked = FALSE

InitStartup ==
    /\ pc = "init"
    /\ NoGame
    /\ input = [mouse |-> [phase |-> "up", pos |-> NoPoint],
                touch |-> [id \in TouchIDs |-> [phase |-> "up", pos |-> NoPoint]]]
    /\ todo = {}
    /\ keysUsed = 0
    /\ adds = 0
    /\ visits = [id \in StrokeIds |-> 0]
    /\ tally = [i \in SpritePtrs |-> [P |-> 0, N |-> 0]]
    /\ ev = [op |-> "load"]

\* variant of init that goes on after a failed decode
StartupIgnoresErrors ==
    /\ pc = "init"
    /\ \E bad \in SUBSET Range(Assets) :
          /\ Install(theGame)
          /\ pc' = "pointers"
          /\ ev' = [op |-> "startup", bad |-> bad]
    /\ UNCHANGED <<input, todo, keysUsed, adds, visits, tally>>

\* init: bad is the set of assets whose decoding fails; log.Fatal ends the
\* process at the first of them, before theGame is assigned
Startup ==
    /\ pc = "init"
    /\ \E bad \in SUBSET Range(Assets) :
          /\ IF \E i \in 1 .. Len(Assets) : Assets[i] \in bad
             THEN /\ pc' = "aborted"
                  /\ UNCHANGED <<sprites, spr, ChosenSprite, strokes, stk,
                                 panicked>>
             ELSE /\ pc' = "pointers"
                  /\ Install(theGame)
          /\ ev' = [op |-> "startup", bad |-> bad]
    /\ UNCHANGED <<input, todo, keysUsed, adds, visits, tally>>

NextStartup ==
    \/ Startup
    \/ Pointers
    \/ Keys
    \/ StrokeStep
    \/ Draw

SpecStartup == InitStartup /\ [][NextStartup]_vars

FrameOps == {"pointers", "keys", "updateStroke", "draw"}

\* C14: when the decoding of an image or the parsing of the font fails, init
\* ends the process with theGame not assigned and no block of the frame
\* callback ever run; when all four succeed the game is built and the frames
\* start; and no block of a frame leaves the callback in an error state: the
\* callback never panics and always goes on to the next block or frame
C14_FatalOnlyAtStartup ==
    /\ pc = "init" => (ev.op = "load" /\ NoGame)
    /\ ev.op = "startup" =>
          IF ev.bad # {}
          THEN pc = "aborted" /\ NoGame
          ELSE pc = "pointers" /\ Game = theGame
    /\ pc = "aborted" => (ev.op = "startup" /\ ev.bad # {} /\ NoGame)
    /\ ev.op \in FrameOps =>
          /\ pc \in {"pointers", "keys", "strokes", "draw"}
          /\ ~panicked

\* the three images were decoded, the font was not, and the process is over
C14_Witness ==
    /\ pc = "aborted"
    /\ ev.bad = {"font"}
    /\ NoGame

\* ------------------------------------------------ the stroke loop as a whole
\* for s := range g.strokes { ... } visiting the strokes in the given order
RECURSIVE strokeLoop(_, _, _)
strokeLoop(g, inp, order) ==
    IF order = << >> \/ g.panicked THEN g
    ELSE strokeLoop(loopBody(g, inp, Head(order)), inp, Tail(order))

\* the orders in which a range loop may visit the keys S of a map
Orders(S) == { o \in [1 .. Cardinality(S) -> S] : Range(o) = S }

\* C15: when the stroke loop of a frame starts, every order of visiting the
\* strokes leaves the sprites at the same places and in the same render order
C15_OrderIndependent ==
    (ev.op = "keys" /\ pc = "strokes") =>
        \A o1 \in Orders(strokes), o2 \in Orders(strokes) :
            LET r1 == strokeLoop(Game, input, o1)
                r2 == strokeLoop(Game, input, o2)
            IN  /\ r1.sprites = r2.sprites
                /\ \A i \in DOMAIN r1.spr : Place(r1.spr[i]) = Place(r2.spr[i])

\* the strokes of g that drag a sprite
Dragging(g) == { id \in g.strokes : DraggingObject(g.stk[id]) \in DOMAIN g.spr }

\* C16: an update of a stroke whose source is not just released changes the
\* current position of that stroke and nothing else: every sprite keeps its
\* place, charge and flag, the render order, the selection and the other
\* strokes stay, and the stroke keeps its origin, its source and the sprite it
\* drags; the dragged sprite is drawn at its stored place plus PositionDiff
C16_LiveDragOnlyMovesStroke ==
    /\ (ev.op = "updateStroke" /\ ~ReleaseSeen) =>
          LET p == SourcePosition(input, ev.before.stk[ev.stroke].source)
          IN  /\ spr = ev.before.spr
              /\ sprites = ev.before.sprites
              /\ ChosenSprite = ev.before.ChosenSprite
              /\ strokes = ev.before.strokes
              /\ stk = [ev.before.stk EXCEPT ![ev.stroke] =
                           [@ EXCEPT !.currentX = p[1], !.currentY = p[2]]]
    /\ \A id \in Dragging(Game) :
          LET s    == spr[DraggingObject(stk[id])]
              diff == PositionDiff(stk[id])
          IN  /\ previewPlace(Game, id)[1] - s.x = diff[1]
              /\ previewPlace(Game, id)[2] - s.y = diff[2]

\* an update has moved the current position of a stroke that drags a sprite,
\* and the sprite is drawn away from its stored place
C16_Witness ==
    /\ ev.op = "updateStroke"
    /\ ~ReleaseSeen
    /\ ev.stroke \in Dragging(Game)
    /\ Position(stk[ev.stroke]) # Position(ev.before.stk[ev.stroke])
    /\ previewPlace(Game, ev.stroke) # Place(spr[Dragged])
    /\ Place(spr[Dragged]) = Place(ev.before.spr[Dragged])

\* the input in which the device of src has just been released
Releasing(inp, src) ==
    LET up == [phase |-> "justReleased", pos |-> NoPoint]
    IN  IF src[1] = "mouse" THEN [inp EXCEPT !.mouse = up]
        ELSE [inp EXCEPT !.touch[src[2]] = up]

Sources == {MouseSrc} \cup { TouchSrc(i) : i \in TouchIDs }

\* C17: Update never clears the released flag and leaves a released stroke as
\* it is; the Update that sees the release keeps the current position, so the
\* displacement committed is the delta the stroke had when the frame began,
\* which is the one its last Update recorded because the pointer-down and key
\* blocks do not write strokes; a stroke released at its first Update has
\* delta (0, 0)
C17_ReleaseKeepsDelta ==
    /\ \A id \in strokes :
          LET r == [stk[id] EXCEPT !.released = TRUE]
          IN  /\ Update(r, input) = r
              /\ Update(r, Releasing(input, r.source)) = r
              /\ Update(stk[id], Releasing(input, r.source))
                    = [stk[id] EXCEPT !.released = TRUE]
    /\ \A src \in Sources :
          LET u == Update(NewStroke(input, src), Releasing(input, src))
          IN  IsReleased(u) /\ PositionDiff(u) = <<0, 0>>
    /\ ev.op \in {"pointers", "keys"} =>
          \A id \in ev.before.strokes : id \in strokes /\ stk[id] = ev.before.stk[id]
    /\ ReleaseSeen =>
          LET o == ev.before.stk[ev.stroke]
              u == Update(o, input)
          IN  /\ ~IsReleased(o) /\ IsReleased(u)
              /\ Position(u) = Position(o)
              /\ PositionDiff(u) = PositionDiff(o)
              /\ Dragged \in DOMAIN ev.before.spr =>
                    spr[Dragged] = MoveBy(ev.before.spr[Dragged],
                                          PositionDiff(o)[1], PositionDiff(o)[2])

\* a release was seen while the source reported another position than the
\* last one recorded, and the sprite moved by the recorded delta
C17_Witness ==
    /\ ReleaseSeen
    /\ Dragged \in DOMAIN spr
    /\ SourcePosition(input, ev.before.stk[ev.stroke].source)
          # Position(ev.before.stk[ev.stroke])
    /\ PositionDiff(ev.before.stk[ev.stroke]) # <<0, 0>>
    /\ Place(spr[Dragged]) = <<ev.before.spr[Dragged].x
                                  + PositionDiff(ev.before.stk[ev.stroke])[1],
                               ev.before.spr[Dragged].y
                                  + PositionDiff(ev.before.stk[ev.stroke])[2]>>

\* ------------------------------------------------------- MoveBy on its own
\* starting places, inside the canvas and outside it (where the arrow keys
\* and 'A' can put a sprite), and displacements
MoveByXs == {-54, 0, 23, 750, 790}
MoveByYs == {-54, 0, 23, 490, 530}
MoveByDxs == {-750, -10, 0, 10, 750}
MoveByDys == {-490, -10, 0, 10, 490}

InitMoveBy ==
    /\ pc = "MoveBy"
    /\ sprites = <<1>>
    /\ \E x \in MoveByXs, y \in MoveByYs : spr = <<NewSprite(<<x, y>>)>>
    /\ ChosenSprite = NilSprite
    /\ strokes = {}
    /\ stk = << >>
    /\ panicked = FALSE
    /\ input = [mouse |-> [phase |-> "up", pos |-> NoPoint],
                touch |-> [id \in TouchIDs |-> [phase |-> "up", pos |-> NoPoint]]]
    /\ todo = {}
    /\ keysUsed = 0
    /\ adds = 0
    /\ visits = [id \in StrokeIds |-> 0]
    /\ tally = [i \in SpritePtrs |-> [P |-> 0, N |-> 0]]
    /\ ev = [op |-> "init"]

\* one call s.MoveBy(dx, dy) on the one sprite
ApplyMoveBy ==
    /\ pc = "MoveBy"
    /\ \E dx \in MoveByDxs, dy \in MoveByDys :
          /\ spr' = [spr EXCEPT ![1] = MoveBy(@, dx, dy)]
          /\ ev' = [op |-> "MoveBy", dx |-> dx, dy |-> dy, before |-> Game]
    /\ pc' = "moved"
    /\ UNCHANGED <<sprites, ChosenSprite, strokes, stk, panicked, input,
                   todo, keysUsed, adds, visits, tally>>

NextMoveBy == ApplyMoveBy

SpecMoveBy == InitMoveBy /\ [][NextMoveBy]_vars

Min(a, b) == IF a <= b THEN a ELSE b

Max(a, b) == IF a >= b THEN a ELSE b

\* C18: MoveBy(dx, dy) leaves the sprite at x' = min(max(x + dx, 0),
\* screenWidth - w) and y' = min(max(y + dy, 0), screenHeight - h), which is
\* (x + dx, y + dy) itself when that place is inside the canvas, for the
\* bitmap size (w, h) and every starting place and displacement; the other
\* fields of the sprite stay
C18_MoveByClamps ==
    ev.op = "MoveBy" =>
        LET s  == ev.before.spr[1]
            w  == ImageSize[1]
            h  == ImageSize[2]
            tx == s.x + ev.dx
            ty == s.y + ev.dy
        IN  /\ w <= screenWidth /\ h <= screenHeight
            /\ spr[1].x = Min(Max(tx, 0), screenWidth - w)
            /\ spr[1].y = Min(Max(ty, 0), screenHeight - h)
            /\ (tx \in 0 .. (screenWidth - w)) => spr[1].x = tx
            /\ (ty \in 0 .. (screenHeight - h)) => spr[1].y = ty
            /\ spr[1] = [s EXCEPT !.x = spr[1].x, !.y = spr[1].y]

\* a move whose target is right of the canvas in x and inside it in y: x is
\* clamped to the right edge and y moves by dy
C18_Witness ==
    /\ ev.op = "MoveBy"
    /\ ev.before.spr[1].x + ev.dx > screenWidth - ImageW
    /\ spr[1].x = screenWidth - ImageW
    /\ ev.dy # 0
    /\ spr[1].y = ev.before.spr[1].y + ev.dy

\* C19: a stroke made by a pointer-down drags what spriteAt returns at its
\* origin, the nil sprite when nothing is hit there; no block changes the
\* drag reference of a stroke that stays in the set; the release of a stroke
\* with a nil drag reference leaves every sprite and the render order as they
\* were, takes the stroke out of the set and does not panic
C19_NullDrag ==
    /\ ev.op = "pointers" =>
          \A id \in strokes \ ev.before.strokes :
              /\ DraggingObject(stk[id])
                    = spriteAt(ev.before, stk[id].initX, stk[id].initY)
              /\ DraggingObject(stk[id]) = NilSprite
                    <=> \A i \in DOMAIN ev.before.spr :
                           ~In(ev.before.spr[i], stk[id].initX, stk[id].initY)
    /\ ev.op \in {"pointers", "keys", "updateStroke"} =>
          \A id \in strokes \cap ev.before.strokes :
              DraggingObject(stk[id]) = DraggingObject(ev.before.stk[id])
    /\ (ReleaseSeen /\ Dragged = NilSprite) =>
          /\ spr = ev.before.spr
          /\ sprites = ev.before.sprites
          /\ strokes = ev.before.strokes \ {ev.stroke}
          /\ ~panicked

\* a stroke that began on no sprite and then moved has been released
C19_Witness ==
    /\ ReleaseSeen
    /\ Dragged = NilSprite
    /\ PositionDiff(ev.before.stk[ev.stroke]) # <<0, 0>>
    /\ ev.stroke \notin strokes
    /\ strokes # {}

\* C20: key blocks with an 'A' press leave the sprite list one longer, the old
\* list being its prefix and the last element a new sprite with charge 0 and
\* the chosen flag not set; key blocks without an 'A' press leave the list as
\* it was; an 'A' press alone leaves every old sprite's place, charge and flag,
\* the selection and the strokes as they were
C20_AddSprite ==
    ev.op = "keys" =>
        IF "A" \in ev.keys
        THEN /\ Len(sprites) = Len(ev.before.sprites) + 1
             /\ SubSeq(sprites, 1, Len(ev.before.sprites)) = ev.before.sprites
             /\ Last(sprites) \notin DOMAIN ev.before.spr
             /\ DOMAIN spr = DOMAIN ev.before.spr \cup {Last(sprites)}
             /\ spr[Last(sprites)].charge = 0
             /\ ~spr[Last(sprites)].chosen
             /\ ChosenSprite = ev.before.ChosenSprite
             /\ strokes = ev.before.strokes
             /\ stk = ev.before.stk
             /\ ev.keys = {"A"} =>
                   \A i \in DOMAIN ev.before.spr : spr[i] = ev.before.spr[i]
        ELSE sprites = ev.before.sprites

\* 'A' was pressed while a sprite was selected and a stroke was active
C20_Witness ==
    /\ ev.op = "keys"
    /\ ev.keys = {"A"}
    /\ Len(sprites) = InitialSprites + 1
    /\ ChosenSprite # NilSprite
    /\ spr[ChosenSprite].chosen
    /\ strokes # {}
    /\ Place(spr[Last(sprites)]) = AddPlaces[1]

Arrows == {"Up", "Down", "Right", "Left"}

\* C21: key blocks with arrow presses only move every sprite whose chosen flag
\* is set by screenWidth/10 to the right per 'Right' and to the left per
\* 'Left', and by screenHeight/10 down per 'Down' and up per 'Up', without
\* clamping; they leave the sprites that are not chosen, every charge and
\* flag, the render order, the selection and the strokes as they were, so
\* with no sprite chosen nothing changes
C21_ArrowNudge ==
    (ev.op = "keys" /\ ev.keys # {} /\ ev.keys \subseteq Arrows) =>
        /\ sprites = ev.before.sprites
        /\ ChosenSprite = ev.before.ChosenSprite
        /\ strokes = ev.before.strokes
        /\ stk = ev.before.stk
        /\ DOMAIN spr = DOMAIN ev.before.spr
        /\ \A i \in DOMAIN spr :
              LET o == ev.before.spr[i]
              IN  IF o.chosen
                  THEN spr[i] =
                         [o EXCEPT
                            !.x = @ + (screenWidth \div 10)
                                        * (Pressed("Right", ev.keys)
                                             - Pressed("Left", ev.keys)),
                            !.y = @ + (screenHeight \div 10)
                                        * (Pressed("Down", ev.keys)
                                             - Pressed("Up", ev.keys))]
                  ELSE spr[i] = o
        /\ (\A i \in DOMAIN ev.before.spr : ~ev.before.spr[i].chosen) =>
              spr = ev.before.spr

\* 'Left' has moved the selected sprite 80 to the left while a stroke drags
\* it and the other sprite stayed
C21_Witness ==
    /\ ev.op = "keys"
    /\ ev.keys = {"Left"}
    /\ ChosenSprite # NilSprite
    /\ spr[ChosenSprite].x = ev.before.spr[ChosenSprite].x - 80
    /\ spr[ChosenSprite].y = ev.before.spr[ChosenSprite].y
    /\ \E id \in strokes : DraggingObject(stk[id]) = ChosenSprite
    /\ \E i \in DOMAIN spr : i # ChosenSprite /\ spr[i] = ev.before.spr[i]

\* C22: every sprite is inside the canvas in every state: 0 <= x <=
\* screenWidth - w and 0 <= y <= screenHeight - h
C22_InsideCanvas ==
    \A i \in DOMAIN spr :
        /\ 0 <= spr[i].x /\ spr[i].x <= screenWidth - ImageSize[1]
        /\ 0 <= spr[i].y /\ spr[i].y <= screenHeight - ImageSize[2]

\* the list without the element s
Without(list, s) ==
    LET keep(e) == e # s
    IN  SelectSeq(list, keep)

\* no element twice
NoDuplicates(list) ==
    \A i \in 1 .. Len(list), j \in 1 .. Len(list) : list[i] = list[j] => i = j

\* C23: every iteration of the stroke loop leaves the sprite list a
\* permutation of the list before it: same length, same sprites, no sprite
\* twice; the sprites other than the released one keep their relative order;
\* and when a stroke that drags a sprite is released the search always finds
\* the sprite, so the index is never -1 and the slice expressions do not panic
C23_PromotionPermutes ==
    /\ NoDuplicates(sprites)
    /\ ev.op = "updateStroke" =>
          /\ Len(sprites) = Len(ev.before.sprites)
          /\ Range(sprites) = Range(ev.before.sprites)
          /\ ~panicked
          /\ IF ReleaseSeen /\ Dragged \in DOMAIN ev.before.spr
             THEN /\ IndexOf(ev.before.sprites, Dragged) # -1
                  /\ Without(sprites, Dragged)
                        = Without(ev.before.sprites, Dragged)
             ELSE sprites = ev.before.sprites
    /\ \A id \in strokes :
          DraggingObject(stk[id]) \in DOMAIN spr =>
              IndexOf(sprites, DraggingObject(stk[id])) # -1

\* the middle one of three sprites has been released and brought to the
\* front while another stroke still drags it
C23_Witness ==
    /\ ReleaseSeen
    /\ Len(sprites) = 3
    /\ Dragged = ev.before.sprites[2]
    /\ sprites = <<ev.before.sprites[1], ev.before.sprites[3], Dragged>>
    /\ \E id \in strokes : DraggingObject(stk[id]) = Dragged

\* C24: g.ChosenSprite is nil exactly when no sprite has its chosen flag set;
\* otherwise it is a sprite of the list and the only one whose flag is set
C24_ChosenSpriteAgrees ==
    /\ (ChosenSprite = NilSprite) <=> (Chosen = {})
    /\ ChosenSprite # NilSprite =>
          /\ ChosenSprite \in Range(sprites)
          /\ Chosen = {ChosenSprite}

\* a pointer-down on no sprite has cleared a selection, and an earlier
\* release had reordered the list
C24_Witness ==
    /\ ev.op = "pointers"
    /\ ev.downs # << >>
    /\ ev.before.ChosenSprite # NilSprite
    /\ ev.before.spr[ev.before.ChosenSprite].chosen
    /\ ChosenSprite = NilSprite
    /\ Chosen = {}
    /\ sprites # [i \in 1 .. Len(sprites) |-> i]

\* C25: in every state, between any two blocks of a frame, every stroke of the
\* set holds a drag reference that is a sprite of the list or the nil sprite,
\* never the untyped nil that updateStroke stores after a release (the stroke
\* that got it is deleted in the same iteration); so the type assertions of
\* updateStroke and of the draw half never fail
C25_DragReferenceTyped ==
    /\ \A id \in strokes :
          /\ DraggingObject(stk[id]) # NilIface
          /\ \/ DraggingObject(stk[id]) = NilSprite
             \/ DraggingObject(stk[id]) \in Range(sprites)
    /\ ~drawPanics(Game)
    /\ ~panicked
    /\ pc = "strokes" =>
          \A id \in todo : ~updateStroke(Game, input, id).panicked

\* a release has stored the untyped nil in its stroke and the stroke is gone,
\* while a stroke with a nil sprite stays in the set for the draw half
C25_Witness ==
    /\ ReleaseSeen
    /\ Dragged \in DOMAIN spr
    /\ ev.stroke \notin strokes
    /\ pc = "draw"
    /\ \E id \in strokes : DraggingObject(stk[id]) = NilSprite

\* ------------------------------------------------------------ liveness
\* the key blocks in frames in which no key is just pressed
NoKeys == KeysOf({}, 0)

\* the program driven by the pointers alone
NextLive ==
    \/ Pointers
    \/ NoKeys
    \/ StrokeStep
    \/ Draw

\* the engine keeps calling Game.update
Fairness == WF_vars(NextLive)

SpecLive == Init /\ [][NextLive]_vars /\ Fairness

\* no source is down
NoneDown ==
    \A src \in Sources : Device(input, src).phase \in {"up", "justReleased"}

\* the device of src is down
IsDown(src) == Device(input, src).phase \in {"justPressed", "held"}

\* C26: when frames keep coming and no source stays down for ever, every
\* stroke in the set leaves it later; and when the stroke loop of a frame is
\* over, or between two frames, with no source down, the stroke set is empty;
\* and an empty stroke set stays empty in every step without a new press
C26_StrokesLeave ==
    /\ (\A src \in Sources : []<>(~IsDown(src))) =>
          (\A id \in StrokeIds : (id \in strokes) ~> (id \notin strokes))
    /\ []((pc \in {"draw", "pointers"} /\ NoneDown) => strokes = {})
    /\ [][(strokes = {} /\ \A src \in Sources :
                              Device(input', src).phase # "justPressed")
             => strokes' = {}]_vars

\* the mouse and a touch were released in the same frame and the loop has
\* emptied the stroke set
C26_Witness ==
    /\ pc = "draw"
    /\ strokes = {}
    /\ ReleaseSeen
    /\ Cardinality({ id \in StrokeIds : visits[id] = 1 }) = 2
    /\ NoneDown

====
